---- MODULE Spec2Model ----
(***************************************************************************)
(* Model of backend/user-auth/index.py: the authentication handler of the  *)
(* freelance exchange.  One request is one run of handler(); it opens its  *)
(* own psycopg2 connection (one transaction, READ COMMITTED, autocommit    *)
(* off), executes the SQL statements of one of the four handle_* functions *)
(* and returns a response.  Requests run concurrently; every SQL statement *)
(* is one atomic step against the store.  Rows written by a transaction    *)
(* are held in tx[r] until conn.commit() and are dropped by conn.close().  *)
(*                                                                         *)
(* Strings are sequences of one-character strings.  Absent values are the  *)
(* empty sequence (strings), 0 (ids, tokens) or "" (tags).                 *)
(***************************************************************************)
EXTENDS Integers, Sequences, FiniteSets, TLC

VARIABLES
    users,                      \* committed rows of table users
    client_profiles,            \* committed rows of table client_profiles
    freelancer_profiles,        \* committed rows of table freelancer_profiles
    user_sessions,              \* committed rows of table user_sessions
    users_id_seq,               \* next value of users.id
    client_profiles_id_seq,     \* next value of client_profiles.id
    freelancer_profiles_id_seq, \* next value of freelancer_profiles.id
    tokens_issued,              \* number of session tokens generated so far
    now,                        \* the current time, in days
    ticks,                      \* number of clock advances so far
    started,                    \* number of requests started so far
    pc,                         \* pc[r]: position of request r in its handler
    req,                        \* req[r]: the event that request r handles
    loc,                        \* loc[r]: local variables of the handler
    tx,                         \* tx[r]: uncommitted writes of r's connection
    out,                        \* the response returned by the last step, if any
    snap,                       \* history: what had happened when request r started
    registrations,              \* history: credentials of every successful Register
    logged_out,                 \* history: tokens whose Logout has returned
    issued,                     \* history: every token generated, with its time
    conn_open,                  \* conn_open[r]: request r holds an open connection
    call                        \* a direct call of hash_password / verify_password

vars == <<users, client_profiles, freelancer_profiles, user_sessions,
          users_id_seq, client_profiles_id_seq, freelancer_profiles_id_seq,
          tokens_issued, now, ticks, started, pc, req, loc, tx, out,
          snap, registrations, logged_out, issued, conn_open, call>>

store == <<users, client_profiles, freelancer_profiles, user_sessions>>
seqs == <<users_id_seq, client_profiles_id_seq, freelancer_profiles_id_seq, tokens_issued>>
clock == <<now, ticks>>
hist == <<registrations, logged_out, issued>>

-----------------------------------------------------------------------------
(* Bounds of the model.                                                    *)

MaxRequests == 2    \* requests started in one behaviour
MaxTicks == 1       \* clock advances in one behaviour
MaxPwLen == 3       \* longest password given to hash_password / verify_password
MaxCalls == 1       \* requests started in one behaviour of SpecCalls
MaxTimeRequests == 2    \* requests started in one behaviour of SpecTime
MaxDayTicks == 2    \* clock advances in one behaviour of SpecTime

Reqs == {1, 2}      \* concurrently running requests

(* Program constants.                                                      *)

SessionDays == 30   \* timedelta(days=30)
MinPassword == 6    \* len(password) < 6

TickDays == SessionDays     \* days per clock advance: a session's whole life

-----------------------------------------------------------------------------
(* Strings.                                                                *)

Secret == <<"s", "e", "c", "r", "e", "t">>
Wrong1 == <<"w", "r", "o", "n", "g", "1">>
Short5 == <<"s", "e", "c", "r", "e">>
NameA == <<"A">>
NameB == <<" ", "B">>

Salts == {<<"5", "a">>}

\* str.lower() on one character
LowerChar(c) == IF c = "A" THEN "a" ELSE IF c = "B" THEN "b" ELSE c

\* str.lower()
Lower(s) == [i \in 1..Len(s) |-> LowerChar(s[i])]

IsSpace(c) == c = " "

RECURSIVE LStrip(_)
LStrip(s) == IF s # <<>> /\ IsSpace(Head(s)) THEN LStrip(Tail(s)) ELSE s

RECURSIVE RStrip(_)
RStrip(s) ==
    IF s # <<>> /\ IsSpace(s[Len(s)]) THEN RStrip(SubSeq(s, 1, Len(s) - 1)) ELSE s

\* str.strip()
Strip(s) == RStrip(LStrip(s))

\* data['email'].lower().strip()
NormalizeEmail(e) == Strip(Lower(e))

\* Python truthiness of a str (or of a missing key: None)
Truthy(s) == s # <<>>

-----------------------------------------------------------------------------
(* Credential hashing.                                                     *)

RECURSIVE HmacKey(_)
\* HMAC pads a key shorter than its block to the block size with NUL bytes, so
\* trailing NUL characters of the password do not change the derived key.
HmacKey(password) ==
    IF password # <<>> /\ password[Len(password)] = "NUL"
    THEN HmacKey(SubSeq(password, 1, Len(password) - 1))
    ELSE password

HashChar(c) == [c |-> c, key |-> <<>>, salt |-> <<>>]

\* hashlib.pbkdf2_hmac('sha256', password.encode(), salt.encode(), 100000).hex():
\* one item that stands for the digest of (key, salt)
Pbkdf2Hex(password, salt) ==
    <<[c |-> "dk", key |-> HmacKey(password), salt |-> [i \in 1..Len(salt) |-> salt[i].c]]>>

\* f"{salt}:{password_hash.hex()}", for the salt that secrets.token_hex drew
hash_password(password, salt) ==
    LET s == [i \in 1..Len(salt) |-> HashChar(salt[i])]
    IN s \o <<HashChar(":")>> \o Pbkdf2Hex(password, s)

RECURSIVE SplitColon(_)
\* str.split(':')
SplitColon(s) ==
    IF \A i \in 1..Len(s) : s[i].c # ":"
    THEN <<s>>
    ELSE LET k == CHOOSE i \in 1..Len(s) :
                      s[i].c = ":" /\ \A j \in 1..(i - 1) : s[j].c # ":"
         IN <<SubSeq(s, 1, k - 1)>> \o SplitColon(SubSeq(s, k + 1, Len(s)))

verify_password(stored_hash, password) ==
    LET parts == SplitColon(stored_hash)
    IN IF Len(parts) = 2
       THEN Pbkdf2Hex(password, parts[1]) = parts[2]
       ELSE FALSE

-----------------------------------------------------------------------------
(* Rows, requests, responses.                                              *)

NoRow == [id |-> 0, email |-> <<>>, password_hash |-> <<>>, user_type |-> "",
          first_name |-> <<>>, last_name |-> <<>>, is_active |-> FALSE]

\* the key 'title' is not in the body
NoTitle == [present |-> FALSE, value |-> ""]

NoReq == [kind |-> "", email |-> <<>>, password |-> <<>>, userType |-> <<>>,
          firstName |-> <<>>, lastName |-> <<>>, title |-> NoTitle,
          header |-> "", token |-> 0]

NoLoc == [email |-> <<>>, user |-> NoRow, profile_id |-> 0, session_token |-> 0]

NoTx == [users |-> {}, client_profiles |-> {}, freelancer_profiles |-> {},
         user_sessions |-> {}, expire |-> {}, expire_at |-> 0]

NoSnap == [registered |-> 0, logged_out |-> FALSE, rival |-> FALSE]

NoSummary == [id |-> 0, email |-> <<>>, userType |-> "", firstName |-> <<>>,
              lastName |-> <<>>, profileId |-> 0]

NoResp == [status |-> 0, error |-> "", message |-> "", sessionToken |-> 0,
           user |-> NoSummary, valid |-> FALSE]

\* no call of hash_password / verify_password has been made
NoCall == [password |-> <<>>, stored_hash |-> <<>>, candidate |-> <<>>,
           stage |-> "", result |-> FALSE]

NoOut == [r |-> 0, req |-> NoReq, resp |-> NoResp, loc |-> NoLoc,
          snap |-> NoSnap, fault |-> ""]

Client == <<"c", "l", "i", "e", "n", "t">>
Freelancer == <<"f", "r", "e", "e", "l", "a", "n", "c", "e", "r">>
Admin == <<"a", "d", "m", "i", "n">>

\* the 'user' object of a response body
Summary(u, profile_id) ==
    [id |-> u.id, email |-> u.email, userType |-> u.user_type,
     firstName |-> u.first_name, lastName |-> u.last_name, profileId |-> profile_id]

\* {'statusCode': status, 'body': {'error': error}}
ErrorResp(status, error) == [NoResp EXCEPT !.status = status, !.error = error]

MissingField(field) == ErrorResp(400, field)
InvalidUserType == ErrorResp(400, "Invalid user type")
WeakPassword == ErrorResp(400, "Password must be at least 6 characters")
EmailExists == ErrorResp(400, "User with this email already exists")
MissingCredentials == ErrorResp(400, "Email and password are required")
InvalidCredentials == ErrorResp(401, "Invalid credentials")
LogoutMissingToken == ErrorResp(400, "Session token required")
CheckMissingToken == ErrorResp(401, "Session token required")
InvalidOrExpiredSession == ErrorResp(401, "Invalid or expired session")
\* f'Database error: {str(e)}', for the two errors the store raises here
UniqueViolationError == ErrorResp(500, "Database error: duplicate key value violates unique constraint")
OperationalError == ErrorResp(500, "Database error: operational error")
\* f'Server error: {str(e)}', for the error json.loads raises on the body 'x'
ServerError == ErrorResp(500, "Server error: Expecting value: line 1 column 1 (char 0)")
InvalidAction == ErrorResp(400, "Invalid action")
MethodNotAllowed == ErrorResp(405, "Method not allowed")
\* the answer to OPTIONS: status 200 and an empty body
OptionsOk == [NoResp EXCEPT !.status = 200]

RegisterOk(u, profile_id, token) ==
    [NoResp EXCEPT !.status = 201, !.message = "User registered successfully",
                   !.sessionToken = token, !.user = Summary(u, profile_id)]

LoginOk(u, profile_id, token) ==
    [NoResp EXCEPT !.status = 200, !.message = "Login successful",
                   !.sessionToken = token, !.user = Summary(u, profile_id)]

LogoutOk == [NoResp EXCEPT !.status = 200, !.message = "Logout successful"]

CheckOk(u, profile_id) ==
    [NoResp EXCEPT !.status = 200, !.valid = TRUE, !.user = Summary(u, profile_id)]

\* a mutant of RegisterValidate: the password length is checked before the
\* user type
RegisterValidate_PasswordFirst(data) ==
    IF ~Truthy(data.email) THEN MissingField("Missing required field: email")
    ELSE IF ~Truthy(data.password) THEN MissingField("Missing required field: password")
    ELSE IF ~Truthy(data.userType) THEN MissingField("Missing required field: userType")
    ELSE IF ~Truthy(data.firstName) THEN MissingField("Missing required field: firstName")
    ELSE IF ~Truthy(data.lastName) THEN MissingField("Missing required field: lastName")
    ELSE IF Len(data.password) < MinPassword THEN WeakPassword
    ELSE IF data.userType \notin {Client, Freelancer} THEN InvalidUserType
    ELSE NoResp

\* the validation of handle_register: the response it returns before any
\* statement runs, or NoResp when the request passes
RegisterValidate(data) ==
    IF ~Truthy(data.email) THEN MissingField("Missing required field: email")
    ELSE IF ~Truthy(data.password) THEN MissingField("Missing required field: password")
    ELSE IF ~Truthy(data.userType) THEN MissingField("Missing required field: userType")
    ELSE IF ~Truthy(data.firstName) THEN MissingField("Missing required field: firstName")
    ELSE IF ~Truthy(data.lastName) THEN MissingField("Missing required field: lastName")
    ELSE IF data.userType \notin {Client, Freelancer} THEN InvalidUserType
    ELSE IF Len(data.password) < MinPassword THEN WeakPassword
    ELSE NoResp

\* the validation of handle_login, on the normalized email
LoginValidate(email, password) ==
    IF ~Truthy(email) \/ ~Truthy(password) THEN MissingCredentials ELSE NoResp

\* 'client' / 'freelancer' as stored in users.user_type
TypeTag(userType) == IF userType = Client THEN "client" ELSE "freelancer"

-----------------------------------------------------------------------------
(* The requests the model issues.                                          *)

RegisterReq(email, password, userType, firstName, lastName) ==
    [NoReq EXCEPT !.kind = "register", !.email = email, !.password = password,
                  !.userType = userType, !.firstName = firstName, !.lastName = lastName]

\* the body `data` with the key 'title' set to `title`
WithTitle(data, title) == [data EXCEPT !.title = [present |-> TRUE, value |-> title]]

\* data.get('title', 'Freelancer')
DataGetTitle(data) == IF data.title.present THEN data.title.value ELSE "Freelancer"

LoginReq(email, password) ==
    [NoReq EXCEPT !.kind = "login", !.email = email, !.password = password]

\* a logout (POST) or check (GET) request whose header `header` carries `token`
TokenReq(kind, header, token) ==
    [NoReq EXCEPT !.kind = kind, !.header = header, !.token = token]

\* requests that no handle_* function serves: OPTIONS, a POST with an action
\* other than register, login, logout, a method other than POST and GET, and a
\* POST whose body is not JSON
OtherReq(kind) == [NoReq EXCEPT !.kind = kind]

OtherInputs == {OtherReq(k) : k \in {"options", "other_action", "other_method", "bad_body"}}

EmailA == <<"a">>
EmailUpperA == <<" ", "A">>
EmailBlank == <<" ">>

RegisterInputs ==
    { RegisterReq(EmailA, Secret, Client, NameA, NameB),
      RegisterReq(EmailUpperA, Secret, Freelancer, NameA, NameB),
      WithTitle(RegisterReq(EmailUpperA, Secret, Freelancer, NameA, NameB), "Dev"),
      RegisterReq(EmailBlank, Secret, Client, NameA, NameB),
      RegisterReq(EmailA, Short5, Client, NameA, NameB),
      RegisterReq(EmailA, Secret, Admin, NameA, NameB),
      RegisterReq(EmailA, Secret, Client, NameA, <<>>) }

LoginInputs ==
    { LoginReq(EmailA, Secret),
      LoginReq(EmailUpperA, Wrong1),
      LoginReq(EmailBlank, Secret),
      LoginReq(EmailA, <<>>) }

\* a token that generate_session_token never returned
GuessedToken == 0 - 1

\* The tokens a caller can present: those a committed Register or Login
\* returned (a token is 64 random bytes, so a caller cannot present one
\* before it was returned), a made-up one, and none (0).
TokenInputs == {s.session_token : s \in user_sessions} \cup {GuessedToken, 0}

\* the header name as the handler spells it second
XSessionToken == "X-Session-Token"

\* every request the model issues
Inputs ==
    RegisterInputs \cup LoginInputs \cup OtherInputs
    \cup {TokenReq(k, XSessionToken, t) : k \in {"logout", "check"}, t \in TokenInputs}

-----------------------------------------------------------------------------
(* The handler: entry, return, errors.                                     *)

\* psycopg2.connect is reached: every request but OPTIONS opens a connection
Acquires(q) == q.kind # "options"

\* a mutant of Finish: without the finally clause the connection is closed on
\* the normal returns only, not when an exception was caught
Finish_NoFinally(r, q, sn, response, fault) ==
    /\ pc' = [pc EXCEPT ![r] = "idle"]
    /\ req' = [req EXCEPT ![r] = NoReq]
    /\ loc' = [loc EXCEPT ![r] = NoLoc]
    /\ tx' = [tx EXCEPT ![r] = NoTx]
    /\ conn_open' = [conn_open EXCEPT ![r] =
                        Acquires(q) /\ fault # "connect" /\ response.status = 500]
    /\ out' = [r |-> r, req |-> q, resp |-> response, loc |-> loc[r],
               snap |-> sn, fault |-> fault]

\* handler returns `response` for request q: the finally clause closes the
\* connection, which drops whatever the transaction has not committed
Finish(r, q, sn, response, fault) ==
    /\ pc' = [pc EXCEPT ![r] = "idle"]
    /\ req' = [req EXCEPT ![r] = NoReq]
    /\ loc' = [loc EXCEPT ![r] = NoLoc]
    /\ tx' = [tx EXCEPT ![r] = NoTx]
    /\ conn_open' = [conn_open EXCEPT ![r] = FALSE]
    /\ out' = [r |-> r, req |-> q, resp |-> response, loc |-> loc[r],
               snap |-> sn, fault |-> fault]

\* the handler moves on to its next statement
Step(r, nextpc, newloc, newtx) ==
    /\ pc' = [pc EXCEPT ![r] = nextpc]
    /\ loc' = [loc EXCEPT ![r] = newloc]
    /\ tx' = [tx EXCEPT ![r] = newtx]
    /\ out' = NoOut
    /\ UNCHANGED <<req, snap, conn_open>>

\* headers.get(key): the value of the header of exactly this name (0: None)
HeadersGet(q, key) == IF q.header = key THEN q.token ELSE 0

\* headers.get('x-session-token') or headers.get('X-Session-Token')
header_session_token(q) ==
    IF HeadersGet(q, "x-session-token") # 0
    THEN HeadersGet(q, "x-session-token")
    ELSE HeadersGet(q, "X-Session-Token")

\* the response handler returns before any statement runs (NoResp: none)
EarlyResp(q) ==
    CASE q.kind = "register" -> RegisterValidate(q)
      [] q.kind = "login" -> LoginValidate(NormalizeEmail(q.email), q.password)
      [] q.kind = "logout" -> IF header_session_token(q) = 0 THEN LogoutMissingToken ELSE NoResp
      [] q.kind = "check" -> IF header_session_token(q) = 0 THEN CheckMissingToken ELSE NoResp
      [] q.kind = "options" -> OptionsOk
      [] q.kind = "other_action" -> InvalidAction
      [] q.kind = "other_method" -> MethodNotAllowed
      [] q.kind = "bad_body" -> ServerError

\* the first statement of the handle_* function that handler dispatches to
FirstPc(q) ==
    CASE q.kind = "register" -> "reg_check"
      [] q.kind = "login" -> "login_user"
      [] q.kind = "logout" -> "logout_update"
      [] q.kind = "check" -> "check_session"

\* history: what had happened when request q starts.  registered: the user id
\* of an earlier successful Register with q's email and password (0: none);
\* logged_out: a Logout of q's token has returned
StartSnap(q) ==
    [registered |->
        IF \E g \in registrations : g.email = q.email /\ g.password = q.password
        THEN (CHOOSE g \in registrations :
                 g.email = q.email /\ g.password = q.password).user_id
        ELSE 0,
     logged_out |-> q.token \in logged_out,
     rival |-> FALSE]

\* handler(event, context) for the event q, up to the first statement.
\* psycopg2.connect comes before the dispatch and the validation: when it
\* raises psycopg2.Error the request, whatever it is, is answered 500.
Begin(r, q) ==
    \/ /\ Acquires(q)
       /\ Finish(r, q, StartSnap(q), OperationalError, "connect")
       /\ UNCHANGED snap
    \/ IF EarlyResp(q) # NoResp
       THEN /\ Finish(r, q, StartSnap(q), EarlyResp(q), "")
            /\ UNCHANGED snap
       ELSE /\ pc' = [pc EXCEPT ![r] = FirstPc(q)]
            /\ req' = [req EXCEPT ![r] = q]
            /\ loc' = [loc EXCEPT ![r] = [NoLoc EXCEPT !.email = NormalizeEmail(q.email)]]
            /\ snap' = [snap EXCEPT ![r] = StartSnap(q)]
            /\ conn_open' = [conn_open EXCEPT ![r] = Acquires(q)]
            /\ out' = NoOut
            /\ UNCHANGED tx

\* one of `inputs` arrives while fewer than `budget` requests have started; the
\* requests in flight are numbered from 1 (a new one takes the lowest free
\* number)
StartOf(r, inputs, budget) ==
    /\ pc[r] = "idle"
    /\ \A q \in Reqs : q < r => pc[q] # "idle"
    /\ started < budget
    /\ started' = started + 1
    /\ \E q \in inputs : Begin(r, q)
    /\ UNCHANGED <<store, seqs, clock, call, hist>>

Start(r) == StartOf(r, Inputs, MaxRequests)

-----------------------------------------------------------------------------
(* The store: constraints and commit.                                      *)

\* a mutant of UsersEmailTaken: the table has no unique constraint
UsersEmailTaken_Unconstrained(email) == FALSE

\* users(email UNIQUE): a committed row already holds this email
UsersEmailTaken(email) == \E u \in users : u.email = email

\* users(email UNIQUE): another open transaction has inserted this email; an
\* INSERT of the same email waits until that transaction ends
UsersEmailLocked(r, email) ==
    \E q \in Reqs \ {r} : \E u \in tx[q].users : u.email = email

\* a row of user_sessions is locked by another open transaction's UPDATE
SessionRowLocked(r, tokens) ==
    \E q \in Reqs \ {r} : tx[q].expire \cap tokens # {}

\* a mutant of Expire: DELETE FROM user_sessions WHERE session_token IN tokens
Expire_Delete(sessions, tokens, at) ==
    {s \in sessions : s.session_token \notin tokens}

\* UPDATE user_sessions SET expires_at = at WHERE session_token IN tokens
Expire(sessions, tokens, at) ==
    {IF s.session_token \in tokens THEN [s EXCEPT !.expires_at = at] ELSE s : s \in sessions}

\* conn.commit(): the writes of r's transaction become visible together
Commit(r) ==
    /\ users' = users \cup tx[r].users
    /\ client_profiles' = client_profiles \cup tx[r].client_profiles
    /\ freelancer_profiles' = freelancer_profiles \cup tx[r].freelancer_profiles
    /\ user_sessions' =
          Expire(user_sessions, tx[r].expire, tx[r].expire_at) \cup tx[r].user_sessions

-----------------------------------------------------------------------------
(* handle_register                                                         *)

\* SELECT id FROM users WHERE email = %s
RegCheckEmail(r) ==
    /\ pc[r] = "reg_check"
    /\ IF \E u \in users : u.email = loc[r].email
       THEN /\ Finish(r, req[r], snap[r], EmailExists, "")
            /\ snap' = [snap EXCEPT ![r] = NoSnap]
       ELSE Step(r, "reg_user", loc[r], tx[r])
    /\ UNCHANGED <<store, seqs, clock, started, call, hist>>

\* the row that INSERT INTO users ... RETURNING yields
NewUser(id, email, data, salt) ==
    [id |-> id, email |-> email, password_hash |-> hash_password(data.password, salt),
     user_type |-> TypeTag(data.userType), first_name |-> Strip(data.firstName),
     last_name |-> Strip(data.lastName), is_active |-> TRUE]

\* a mutant of RegInsertUser: the connection is in autocommit mode, so the row
\* is visible as soon as it is inserted
RegInsertUser_Autocommit(r) ==
    /\ pc[r] = "reg_user"
    /\ ~UsersEmailLocked(r, loc[r].email)
    /\ users_id_seq' = users_id_seq + 1
    /\ IF UsersEmailTaken(loc[r].email)
       THEN /\ Finish(r, req[r], snap[r], UniqueViolationError, "")
            /\ snap' = [snap EXCEPT ![r] = NoSnap]
            /\ UNCHANGED users
       ELSE \E salt \in Salts :
               LET user == NewUser(users_id_seq, loc[r].email, req[r], salt)
               IN /\ Step(r, "reg_profile", [loc[r] EXCEPT !.user = user], tx[r])
                  /\ users' = users \cup {user}
    /\ UNCHANGED <<client_profiles, freelancer_profiles, user_sessions,
                   client_profiles_id_seq, freelancer_profiles_id_seq,
                   tokens_issued, clock, started, call, hist>>

\* hash_password, then INSERT INTO users (...) RETURNING ...
RegInsertUser(r) ==
    /\ pc[r] = "reg_user"
    /\ ~UsersEmailLocked(r, loc[r].email)
    /\ users_id_seq' = users_id_seq + 1
    /\ IF UsersEmailTaken(loc[r].email)
       THEN /\ Finish(r, req[r], snap[r], UniqueViolationError, "")
            /\ snap' = [snap EXCEPT ![r] = NoSnap]
       ELSE \E salt \in Salts :
               LET user == NewUser(users_id_seq, loc[r].email, req[r], salt)
               IN Step(r, "reg_profile", [loc[r] EXCEPT !.user = user],
                       [tx[r] EXCEPT !.users = {user}])
    /\ UNCHANGED <<store, client_profiles_id_seq, freelancer_profiles_id_seq,
                   tokens_issued, clock, started, call, hist>>

\* INSERT INTO client_profiles / freelancer_profiles ... RETURNING id
RegInsertProfile(r) ==
    /\ pc[r] = "reg_profile"
    /\ IF req[r].userType = Client
       THEN /\ Step(r, "reg_session",
                    [loc[r] EXCEPT !.profile_id = client_profiles_id_seq],
                    [tx[r] EXCEPT !.client_profiles =
                        {[id |-> client_profiles_id_seq, user_id |-> loc[r].user.id]}])
            /\ client_profiles_id_seq' = client_profiles_id_seq + 1
            /\ UNCHANGED freelancer_profiles_id_seq
       ELSE /\ Step(r, "reg_session",
                    [loc[r] EXCEPT !.profile_id = freelancer_profiles_id_seq],
                    [tx[r] EXCEPT !.freelancer_profiles =
                        {[id |-> freelancer_profiles_id_seq, user_id |-> loc[r].user.id,
                          title |-> DataGetTitle(req[r])]}])
            /\ freelancer_profiles_id_seq' = freelancer_profiles_id_seq + 1
            /\ UNCHANGED client_profiles_id_seq
    /\ UNCHANGED <<store, users_id_seq, tokens_issued, clock, started, call, hist>>

\* generate_session_token(): a token no earlier call returned
generate_session_token == tokens_issued + 1

\* a mutant of ExpiryFromNow: the lifetime is one day short
ExpiryFromNow_DayShort == now + (SessionDays - 1)

\* datetime.now() + timedelta(days=30)
ExpiryFromNow == now + SessionDays

SessionRow(user_id, session_token, expires_at) ==
    [user_id |-> user_id, session_token |-> session_token, expires_at |-> expires_at]

\* the row that INSERT INTO user_sessions writes
NewSession(user_id) == SessionRow(user_id, generate_session_token, ExpiryFromNow)

\* history: the token that generate_session_token returns now, the account and
\* profile of the request that asked for it, and the time
Issue(user_id, profile_id) ==
    [session_token |-> generate_session_token, user_id |-> user_id,
     profile_id |-> profile_id, at |-> now]

\* generate_session_token, then INSERT INTO user_sessions
RegInsertSession(r) ==
    /\ pc[r] = "reg_session"
    /\ tokens_issued' = tokens_issued + 1
    /\ issued' = issued \cup {Issue(loc[r].user.id, loc[r].profile_id)}
    /\ Step(r, "reg_commit", [loc[r] EXCEPT !.session_token = generate_session_token],
            [tx[r] EXCEPT !.user_sessions = {NewSession(loc[r].user.id)}])
    /\ UNCHANGED <<store, users_id_seq, client_profiles_id_seq,
                   freelancer_profiles_id_seq, clock, started, call,
                   registrations, logged_out>>

\* conn.commit() and the 201 response
RegCommit(r) ==
    /\ pc[r] = "reg_commit"
    /\ Commit(r)
    /\ Finish(r, req[r], snap[r], RegisterOk(loc[r].user, loc[r].profile_id, loc[r].session_token), "")
    /\ snap' = [q \in Reqs |->
                  IF q = r THEN NoSnap
                  ELSE IF req[q].kind = "register" /\ loc[q].email = loc[r].email
                       THEN [snap[q] EXCEPT !.rival = TRUE]
                       ELSE snap[q]]
    /\ registrations' = registrations \cup
          {[email |-> req[r].email, password |-> req[r].password,
            user_id |-> loc[r].user.id, session_token |-> loc[r].session_token]}
    /\ UNCHANGED <<seqs, clock, started, call, logged_out, issued>>

-----------------------------------------------------------------------------
(* handle_login                                                            *)

\* a mutant of LoginSelectUser: a wrong password disables the account
LoginSelectUser_Lockout(r) ==
    /\ pc[r] = "login_user"
    /\ LET found == {u \in users : u.email = loc[r].email}
       IN IF found = {}
          THEN /\ Finish(r, req[r], snap[r], InvalidCredentials, "")
               /\ snap' = [snap EXCEPT ![r] = NoSnap]
               /\ UNCHANGED users
          ELSE \E user \in found :
                  IF ~user.is_active
                  THEN /\ Finish(r, req[r], snap[r], InvalidCredentials, "")
                       /\ snap' = [snap EXCEPT ![r] = NoSnap]
                       /\ UNCHANGED users
                  ELSE IF ~verify_password(user.password_hash, req[r].password)
                  THEN /\ Finish(r, req[r], snap[r], InvalidCredentials, "")
                       /\ snap' = [snap EXCEPT ![r] = NoSnap]
                       /\ users' = (users \ {user}) \cup {[user EXCEPT !.is_active = FALSE]}
                  ELSE /\ Step(r, "login_profile", [loc[r] EXCEPT !.user = user], tx[r])
                       /\ UNCHANGED users
    /\ UNCHANGED <<client_profiles, freelancer_profiles, user_sessions, seqs, clock,
                   started, call, hist>>

\* a mutant of LoginSelectUser: an unknown email gets an answer of its own
LoginSelectUser_Leaky(r) ==
    /\ pc[r] = "login_user"
    /\ LET found == {u \in users : u.email = loc[r].email}
       IN IF found = {}
          THEN /\ Finish(r, req[r], snap[r], ErrorResp(404, "User not found"), "")
               /\ snap' = [snap EXCEPT ![r] = NoSnap]
          ELSE \E user \in found :
                  IF ~user.is_active \/ ~verify_password(user.password_hash, req[r].password)
                  THEN /\ Finish(r, req[r], snap[r], InvalidCredentials, "")
                       /\ snap' = [snap EXCEPT ![r] = NoSnap]
                  ELSE Step(r, "login_profile", [loc[r] EXCEPT !.user = user], tx[r])
    /\ UNCHANGED <<store, seqs, clock, started, call, hist>>

\* SELECT ... FROM users WHERE email = %s, the is_active test and verify_password
LoginSelectUser(r) ==
    /\ pc[r] = "login_user"
    /\ LET found == {u \in users : u.email = loc[r].email}
       IN IF found = {}
          THEN /\ Finish(r, req[r], snap[r], InvalidCredentials, "")
               /\ snap' = [snap EXCEPT ![r] = NoSnap]
          ELSE \E user \in found :
                  IF ~user.is_active
                  THEN /\ Finish(r, req[r], snap[r], InvalidCredentials, "")
                       /\ snap' = [snap EXCEPT ![r] = NoSnap]
                  ELSE IF ~verify_password(user.password_hash, req[r].password)
                  THEN /\ Finish(r, req[r], snap[r], InvalidCredentials, "")
                       /\ snap' = [snap EXCEPT ![r] = NoSnap]
                  ELSE Step(r, "login_profile", [loc[r] EXCEPT !.user = user], tx[r])
    /\ UNCHANGED <<store, seqs, clock, started, call, hist>>

\* SELECT id FROM client_profiles / freelancer_profiles WHERE user_id = %s:
\* the ids fetchone can return (0: no row, profile_id stays None)
ProfileIds(user_type, user_id) ==
    LET ids == IF user_type = "client"
               THEN {p.id : p \in {x \in client_profiles : x.user_id = user_id}}
               ELSE {p.id : p \in {x \in freelancer_profiles : x.user_id = user_id}}
    IN IF ids = {} THEN {0} ELSE ids

LoginSelectProfile(r) ==
    /\ pc[r] = "login_profile"
    /\ \E id \in ProfileIds(loc[r].user.user_type, loc[r].user.id) :
          Step(r, "login_session", [loc[r] EXCEPT !.profile_id = id], tx[r])
    /\ UNCHANGED <<store, seqs, clock, started, call, hist>>

\* a mutant of LoginInsertSession: a login ends the account's earlier sessions
LoginInsertSession_Revoke(r) ==
    /\ pc[r] = "login_session"
    /\ tokens_issued' = tokens_issued + 1
    /\ issued' = issued \cup {Issue(loc[r].user.id, loc[r].profile_id)}
    /\ Step(r, "login_commit", [loc[r] EXCEPT !.session_token = generate_session_token],
            [tx[r] EXCEPT !.user_sessions = {NewSession(loc[r].user.id)},
                          !.expire = {s.session_token : s \in {x \in user_sessions :
                                                                x.user_id = loc[r].user.id}},
                          !.expire_at = now])
    /\ UNCHANGED <<store, users_id_seq, client_profiles_id_seq,
                   freelancer_profiles_id_seq, clock, started, call,
                   registrations, logged_out>>

\* generate_session_token, then INSERT INTO user_sessions
LoginInsertSession(r) ==
    /\ pc[r] = "login_session"
    /\ tokens_issued' = tokens_issued + 1
    /\ issued' = issued \cup {Issue(loc[r].user.id, loc[r].profile_id)}
    /\ Step(r, "login_commit", [loc[r] EXCEPT !.session_token = generate_session_token],
            [tx[r] EXCEPT !.user_sessions = {NewSession(loc[r].user.id)}])
    /\ UNCHANGED <<store, users_id_seq, client_profiles_id_seq,
                   freelancer_profiles_id_seq, clock, started, call,
                   registrations, logged_out>>

\* conn.commit() and the 200 response
LoginCommit(r) ==
    /\ pc[r] = "login_commit"
    /\ Commit(r)
    /\ Finish(r, req[r], snap[r], LoginOk(loc[r].user, loc[r].profile_id, loc[r].session_token), "")
    /\ snap' = [snap EXCEPT ![r] = NoSnap]
    /\ UNCHANGED <<seqs, clock, started, call, hist>>

-----------------------------------------------------------------------------
(* handle_logout                                                           *)

\* a mutant of LogoutUpdate: the UPDATE ends every session of the token's account
LogoutUpdate_AllOfUser(r) ==
    /\ pc[r] = "logout_update"
    /\ LET owners == {s.user_id : s \in {x \in user_sessions :
                                            x.session_token = req[r].token}}
           matched == {s.session_token : s \in {x \in user_sessions :
                                                  x.user_id \in owners}}
       IN /\ ~SessionRowLocked(r, matched)
          /\ Step(r, "logout_commit", loc[r],
                  [tx[r] EXCEPT !.expire = matched, !.expire_at = now])
    /\ UNCHANGED <<store, seqs, clock, started, call, hist>>

\* UPDATE user_sessions SET expires_at = NOW() WHERE session_token = %s
LogoutUpdate(r) ==
    /\ pc[r] = "logout_update"
    /\ LET matched == {s.session_token : s \in {x \in user_sessions :
                                                  x.session_token = req[r].token}}
       IN /\ ~SessionRowLocked(r, matched)
          /\ Step(r, "logout_commit", loc[r],
                  [tx[r] EXCEPT !.expire = matched, !.expire_at = now])
    /\ UNCHANGED <<store, seqs, clock, started, call, hist>>

\* a mutant of LogoutCommit: conn.commit() is missing, so closing the
\* connection drops the UPDATE
LogoutCommit_NoCommit(r) ==
    /\ pc[r] = "logout_commit"
    /\ Finish(r, req[r], snap[r], LogoutOk, "")
    /\ snap' = [snap EXCEPT ![r] = NoSnap]
    /\ logged_out' = logged_out \cup {req[r].token}
    /\ UNCHANGED <<store, seqs, clock, started, call, registrations, issued>>

\* conn.commit() and the 200 response
LogoutCommit(r) ==
    /\ pc[r] = "logout_commit"
    /\ Commit(r)
    /\ Finish(r, req[r], snap[r], LogoutOk, "")
    /\ snap' = [snap EXCEPT ![r] = NoSnap]
    /\ logged_out' = logged_out \cup {req[r].token}
    /\ UNCHANGED <<seqs, clock, started, call, registrations, issued>>

-----------------------------------------------------------------------------
(* handle_session_check                                                    *)

\* a mutant of FindActiveByToken: expires_at >= NOW()
FindActiveByToken_Geq(token) ==
    {u \in users : \E s \in user_sessions :
        /\ s.user_id = u.id
        /\ s.session_token = token
        /\ s.expires_at >= now
        /\ u.is_active}

\* SELECT ... FROM user_sessions s JOIN users u ON s.user_id = u.id
\* WHERE s.session_token = %s AND s.expires_at > NOW() AND u.is_active = true:
\* the users of the rows it yields
FindActiveByToken(token) ==
    {u \in users : \E s \in user_sessions :
        /\ s.user_id = u.id
        /\ s.session_token = token
        /\ s.expires_at > now
        /\ u.is_active}

\* a mutant of CheckSelectSession: the session of a disabled account gets an
\* answer of its own
CheckSelectSession_Leaky(r) ==
    /\ pc[r] = "check_session"
    /\ IF FindActiveByToken(req[r].token) = {}
       THEN /\ Finish(r, req[r], snap[r],
                      IF \E s \in user_sessions : \E u \in users :
                            s.session_token = req[r].token /\ u.id = s.user_id /\ ~u.is_active
                      THEN ErrorResp(403, "Account disabled")
                      ELSE InvalidOrExpiredSession, "")
            /\ snap' = [snap EXCEPT ![r] = NoSnap]
       ELSE \E user \in FindActiveByToken(req[r].token) :
               Step(r, "check_profile", [loc[r] EXCEPT !.user = user], tx[r])
    /\ UNCHANGED <<store, seqs, clock, started, call, hist>>

CheckSelectSession(r) ==
    /\ pc[r] = "check_session"
    /\ IF FindActiveByToken(req[r].token) = {}
       THEN /\ Finish(r, req[r], snap[r], InvalidOrExpiredSession, "")
            /\ snap' = [snap EXCEPT ![r] = NoSnap]
       ELSE \E user \in FindActiveByToken(req[r].token) :
               Step(r, "check_profile", [loc[r] EXCEPT !.user = user], tx[r])
    /\ UNCHANGED <<store, seqs, clock, started, call, hist>>

\* a mutant of CheckSelectProfile: a token can be checked once; the check ends
\* its session
CheckSelectProfile_Consume(r) ==
    /\ pc[r] = "check_profile"
    /\ \E id \in ProfileIds(loc[r].user.user_type, loc[r].user.id) :
          Finish(r, req[r], snap[r], CheckOk(loc[r].user, id), "")
    /\ snap' = [snap EXCEPT ![r] = NoSnap]
    /\ user_sessions' = Expire(user_sessions, {req[r].token}, now)
    /\ UNCHANGED <<users, client_profiles, freelancer_profiles, seqs, clock,
                   started, call, hist>>

\* the profile SELECT and the 200 response
CheckSelectProfile(r) ==
    /\ pc[r] = "check_profile"
    /\ \E id \in ProfileIds(loc[r].user.user_type, loc[r].user.id) :
          Finish(r, req[r], snap[r], CheckOk(loc[r].user, id), "")
    /\ snap' = [snap EXCEPT ![r] = NoSnap]
    /\ UNCHANGED <<store, seqs, clock, started, call, hist>>

-----------------------------------------------------------------------------
(* The environment.                                                        *)

\* users.is_active is set to false outside this handler (no handler sets it)
Deactivate ==
    /\ \E u \in users :
          /\ u.is_active
          /\ users' = (users \ {u}) \cup {[u EXCEPT !.is_active = FALSE]}
    /\ out' = NoOut
    /\ UNCHANGED <<client_profiles, freelancer_profiles, user_sessions, seqs, clock,
                   started, call, pc, req, loc, tx, snap, conn_open, hist>>

\* a mutant of Fault: the handler commits what the transaction has written
\* before it answers 500
Fault_Commit(r) ==
    /\ pc[r] # "idle"
    /\ Commit(r)
    /\ Finish(r, req[r], snap[r], OperationalError, pc[r])
    /\ snap' = [snap EXCEPT ![r] = NoSnap]
    /\ UNCHANGED <<seqs, clock, started, call, hist>>

\* the statement at pc[r] raises psycopg2.Error (the connection is lost, the
\* store is unavailable): handler answers 500 and closes the connection
Fault(r) ==
    /\ pc[r] # "idle"
    /\ Finish(r, req[r], snap[r], OperationalError, pc[r])
    /\ snap' = [snap EXCEPT ![r] = NoSnap]
    /\ UNCHANGED <<store, seqs, clock, started, call, hist>>

\* time passes
Tick ==
    /\ ticks < MaxTicks
    /\ ticks' = ticks + 1
    /\ now' = now + TickDays
    /\ out' = NoOut
    /\ UNCHANGED <<store, seqs, started, call, pc, req, loc, tx, snap, conn_open, hist>>

-----------------------------------------------------------------------------
(* The initial store is empty, or holds what one Register of SeedReq at     *)
(* time 0 has committed: account 1, its client profile and its session.    *)

SeedReq == RegisterReq(EmailA, Secret, Client, NameA, NameB)
SeedUser == NewUser(1, NormalizeEmail(SeedReq.email), SeedReq, <<"5", "a">>)

Init ==
    /\ \/ /\ users = {}
          /\ client_profiles = {}
          /\ user_sessions = {}
          /\ users_id_seq = 1
          /\ client_profiles_id_seq = 1
          /\ tokens_issued = 0
          /\ registrations = {}
          /\ issued = {}
       \/ /\ users = {SeedUser}
          /\ client_profiles = {[id |-> 1, user_id |-> 1]}
          /\ user_sessions = {SessionRow(1, 1, SessionDays)}
          /\ users_id_seq = 2
          /\ client_profiles_id_seq = 2
          /\ tokens_issued = 1
          /\ registrations = {[email |-> SeedReq.email, password |-> SeedReq.password,
                               user_id |-> 1, session_token |-> 1]}
          /\ issued = {[session_token |-> 1, user_id |-> 1, profile_id |-> 1, at |-> 0]}
    /\ freelancer_profiles = {}
    /\ freelancer_profiles_id_seq = 1
    /\ now = 0
    /\ ticks = 0
    /\ started = 0
    /\ pc = [r \in Reqs |-> "idle"]
    /\ req = [r \in Reqs |-> NoReq]
    /\ loc = [r \in Reqs |-> NoLoc]
    /\ tx = [r \in Reqs |-> NoTx]
    /\ out = NoOut
    /\ snap = [r \in Reqs |-> NoSnap]
    /\ logged_out = {}
    /\ conn_open = [r \in Reqs |-> FALSE]
    /\ call = NoCall

Next ==
    \/ \E r \in Reqs : Start(r)
    \/ \E r \in Reqs : Fault(r)
    \/ \E r \in Reqs : RegCheckEmail(r)
    \/ \E r \in Reqs : RegInsertUser(r)
    \/ \E r \in Reqs : RegInsertProfile(r)
    \/ \E r \in Reqs : RegInsertSession(r)
    \/ \E r \in Reqs : RegCommit(r)
    \/ \E r \in Reqs : LoginSelectUser(r)
    \/ \E r \in Reqs : LoginSelectProfile(r)
    \/ \E r \in Reqs : LoginInsertSession(r)
    \/ \E r \in Reqs : LoginCommit(r)
    \/ \E r \in Reqs : LogoutUpdate(r)
    \/ \E r \in Reqs : LogoutCommit(r)
    \/ \E r \in Reqs : CheckSelectSession(r)
    \/ \E r \in Reqs : CheckSelectProfile(r)
    \/ Deactivate
    \/ Tick

Spec == Init /\ [][Next]_vars

-----------------------------------------------------------------------------
(* The handler on a wide range of single requests: every combination of    *)
(* absent, invalid and valid Register fields, and every spelling of the     *)
(* session header.                                                         *)

Secret7 == Secret \o <<"7">>
EmailB == <<"b">>

CallBodies ==
    { RegisterReq(email, password, userType, firstName, lastName) :
        email \in {<<>>, EmailA, EmailUpperA, EmailB},
        password \in {<<>>, Short5, Secret, Secret7},
        userType \in {<<>>, Client, Freelancer, Admin},
        firstName \in {<<>>, NameA},
        lastName \in {<<>>, NameB} }

\* each body without a title, with the title 'Dev' and with an empty title
CallRegisterInputs ==
    CallBodies \cup {WithTitle(data, title) : data \in CallBodies, title \in {"Dev", ""}}

\* spellings of the session header's name that a client can send
HeaderNames == {"x-session-token", "X-Session-Token", "X-SESSION-TOKEN"}

CallInputs ==
    CallRegisterInputs
    \cup {TokenReq(k, h, t) : k \in {"logout", "check"}, h \in HeaderNames, t \in TokenInputs}

Call(r) == StartOf(r, CallInputs, MaxCalls)

NextCalls ==
    \/ \E r \in Reqs : Call(r)
    \/ \E r \in Reqs : RegCheckEmail(r)
    \/ \E r \in Reqs : RegInsertUser(r)
    \/ \E r \in Reqs : RegInsertProfile(r)
    \/ \E r \in Reqs : RegInsertSession(r)
    \/ \E r \in Reqs : RegCommit(r)
    \/ \E r \in Reqs : LogoutUpdate(r)
    \/ \E r \in Reqs : LogoutCommit(r)
    \/ \E r \in Reqs : CheckSelectSession(r)
    \/ \E r \in Reqs : CheckSelectProfile(r)

SpecCalls == Init /\ [][NextCalls]_vars

-----------------------------------------------------------------------------
(* The handler while a session ages: valid requests only, and a clock that *)
(* advances by one day or by one day less than the lifetime of a session,  *)
(* so that a token is presented on its last valid day and on the day it    *)
(* expires.                                                                *)

DaySteps == {1, SessionDays - 1}

\* time passes: a day, or all but one day of a session's life
TickBy(days) ==
    /\ ticks < MaxDayTicks
    /\ ticks' = ticks + 1
    /\ now' = now + days
    /\ out' = NoOut
    /\ UNCHANGED <<store, seqs, started, call, pc, req, loc, tx, snap, conn_open, hist>>

TimeInputs ==
    {SeedReq, LoginReq(EmailA, Secret)}
    \cup {TokenReq(k, XSessionToken, t) : k \in {"logout", "check"},
                                         t \in TokenInputs \ {0}}

StartTime(r) == StartOf(r, TimeInputs, MaxTimeRequests)

NextTime ==
    \/ \E r \in Reqs : StartTime(r)
    \/ \E r \in Reqs : Fault(r)
    \/ \E r \in Reqs : RegCheckEmail(r)
    \/ \E r \in Reqs : RegInsertUser(r)
    \/ \E r \in Reqs : RegInsertProfile(r)
    \/ \E r \in Reqs : RegInsertSession(r)
    \/ \E r \in Reqs : RegCommit(r)
    \/ \E r \in Reqs : LoginSelectUser(r)
    \/ \E r \in Reqs : LoginSelectProfile(r)
    \/ \E r \in Reqs : LoginInsertSession(r)
    \/ \E r \in Reqs : LoginCommit(r)
    \/ \E r \in Reqs : LogoutUpdate(r)
    \/ \E r \in Reqs : LogoutCommit(r)
    \/ \E r \in Reqs : CheckSelectSession(r)
    \/ \E r \in Reqs : CheckSelectProfile(r)
    \/ Deactivate
    \/ \E days \in DaySteps : TickBy(days)

SpecTime == Init /\ [][NextTime]_vars

-----------------------------------------------------------------------------
(* hash_password and verify_password called directly: one call of          *)
(* hash_password on a password, then calls of verify_password on its       *)
(* result and a candidate.                                                 *)

\* characters of the passwords: a letter, the separator of the stored hash,
\* and the character U+0000
PwChars == {"s", ":", "NUL"}

Passwords == UNION {[1..n -> PwChars] : n \in 0..MaxPwLen}

\* values that secrets.token_hex can return
HashSalts == {<<"5", "a">>, <<"0", "f">>}

handler_vars == <<users, client_profiles, freelancer_profiles, user_sessions,
                  users_id_seq, client_profiles_id_seq, freelancer_profiles_id_seq,
                  tokens_issued, now, ticks, started, pc, req, loc, tx, out,
                  snap, registrations, logged_out, issued, conn_open>>

\* stored_hash = hash_password(password)
HashCall ==
    /\ call.stage = ""
    /\ \E password \in Passwords : \E salt \in HashSalts :
          call' = [NoCall EXCEPT !.password = password,
                                 !.stored_hash = hash_password(password, salt),
                                 !.stage = "hashed"]
    /\ UNCHANGED handler_vars

\* result = verify_password(stored_hash, candidate)
VerifyCall ==
    /\ call.stage = "hashed"
    /\ \E candidate \in Passwords :
          call' = [call EXCEPT !.candidate = candidate,
                               !.result = verify_password(call.stored_hash, candidate),
                               !.stage = "verified"]
    /\ UNCHANGED handler_vars

InitHash == Init /\ users = {}

NextHash == HashCall \/ VerifyCall

SpecHash == InitHash /\ [][NextHash]_vars

-----------------------------------------------------------------------------
(* Properties.  `out` is the response that the step just taken returned:   *)
(* out.req is the request, out.loc the handler's locals when it returned,  *)
(* out.snap what had happened when the request started, out.fault the      *)
(* statement that raised a store error ("connect" for psycopg2.connect,    *)
(* "" when none did).                                                      *)

Returned(kind) == out.r # 0 /\ out.req.kind = kind

\* C1: when two Registers with the same normalized email and valid fields run
\* concurrently, exactly one succeeds and the other yields EmailExists: a
\* Register that returns after a concurrent Register of its email has
\* committed returns the EmailExists error.
C1_ConcurrentRegisterOtherGetsEmailExists ==
    ( /\ Returned("register")
      /\ RegisterValidate(out.req) = NoResp
      /\ NormalizeEmail(out.req.email) # <<>>
      /\ out.fault = ""
      /\ out.snap.rival )
    => out.resp = EmailExists

\* C2: in every committed state of the store no two account records have the
\* same email.
C2_EmailUnique ==
    \A u1 \in users : \A u2 \in users : u1.email = u2.email => u1 = u2

\* C2 witness: an INSERT of an email that a concurrent Register had committed
\* was refused by the store, and the account of that email is there.
C2_Witness ==
    /\ Returned("register")
    /\ out.resp = UniqueViolationError
    /\ out.snap.rival
    /\ \E u \in users : u.email = NormalizeEmail(out.req.email)

ProfilesOf(u) ==
    [client |-> {p \in client_profiles : p.user_id = u.id},
     freelancer |-> {p \in freelancer_profiles : p.user_id = u.id}]

\* C3: in every committed state every account record has exactly one profile
\* record, of the variant of its user type, and the session that its Register
\* wrote: the three writes become visible together.
C3_AccountHasItsProfile ==
    \A u \in users :
        /\ u.user_type \in {"client", "freelancer"}
        /\ \E s \in user_sessions : s.user_id = u.id
        /\ u.user_type = "client" =>
              /\ Cardinality(ProfilesOf(u).client) = 1
              /\ ProfilesOf(u).freelancer = {}
        /\ u.user_type = "freelancer" =>
              /\ Cardinality(ProfilesOf(u).freelancer) = 1
              /\ ProfilesOf(u).client = {}

\* C3 witness: a Login or CheckSession is about to read the store while a
\* Register holds an inserted account that it has not committed.
C3_Witness ==
    \E r \in Reqs : \E q \in Reqs :
        /\ pc[r] \in {"login_user", "login_profile", "check_session", "check_profile"}
        /\ pc[q] \in {"reg_profile", "reg_session", "reg_commit"}
        /\ tx[q].users # {}
        /\ users # {}

\* C4: when a store step of Register fails after the account row was inserted
\* (profile insert, session insert or commit), the caller gets the storage
\* error and the store holds no account, profile or session of that request.
C4_FailedRegisterLeavesNothing ==
    ( /\ Returned("register")
      /\ out.fault \in {"reg_profile", "reg_session", "reg_commit"} )
    => /\ out.resp.status = 500
       /\ out.resp = OperationalError
       /\ \A u \in users : u.id # out.loc.user.id
       /\ \A p \in client_profiles \cup freelancer_profiles : p.user_id # out.loc.user.id
       /\ \A x \in user_sessions :
             x.user_id # out.loc.user.id /\ x.session_token # out.loc.session_token

\* C4 witness: the commit of a Register failed after its three inserts.
C4_Witness ==
    /\ Returned("register")
    /\ out.fault = "reg_commit"
    /\ out.loc.user.id # 0
    /\ out.loc.profile_id # 0
    /\ out.loc.session_token # 0

\* C5: a Login that starts after a Register of the same email and password
\* has succeeded, the account still being active, succeeds and returns a
\* session token different from the one issued at registration.
C5_LoginAfterRegisterSucceeds ==
    ( /\ Returned("login")
      /\ out.fault = ""
      /\ out.snap.registered # 0
      /\ \E u \in users : u.id = out.snap.registered /\ u.is_active )
    => /\ out.resp.status = 200
       /\ out.resp.sessionToken # 0
       /\ \A g \in registrations :
             g.user_id = out.snap.registered => out.resp.sessionToken # g.session_token

\* a session that CheckSession must accept: not expired, account active
ValidSession(s) ==
    /\ s.expires_at > now
    /\ \E u \in users : u.id = s.user_id /\ u.is_active

ValidTokens == {s.session_token : s \in {x \in user_sessions : ValidSession(x)}}

\* C6: once Logout(token) has returned, every later CheckSession(token)
\* returns InvalidOrExpiredSession, and no operation makes the session of a
\* logged-out token valid again.
C6_LoggedOutStaysInvalid ==
    /\ ( /\ Returned("check")
         /\ out.fault = ""
         /\ out.snap.logged_out )
       => out.resp = InvalidOrExpiredSession
    /\ \A t \in logged_out : t \notin ValidTokens

\* C6 witness: CheckSession of an issued token, started after the Logout of
\* that token had returned, has answered.
C6_Witness ==
    /\ Returned("check")
    /\ out.fault = ""
    /\ out.snap.logged_out
    /\ \E s \in user_sessions : s.session_token = out.req.token

\* the step of request r from pc value `at` that is not a store error
Moves(r, at) ==
    /\ pc[r] = at
    /\ pc'[r] # at
    /\ ~(out'.r = r /\ out'.fault # "")

\* C7: CheckSession with a non-empty token returns the valid result if and
\* only if the store holds a session of that token with expires_at > now whose
\* account is active; otherwise it returns InvalidOrExpiredSession.
C7_CheckSessionValidIff ==
    [][ \A r \in Reqs :
          /\ Moves(r, "check_session") =>
                /\ (pc'[r] = "check_profile") <=> (req[r].token \in ValidTokens)
                /\ pc'[r] # "check_profile" =>
                      out'.r = r /\ out'.resp = InvalidOrExpiredSession
          /\ Moves(r, "check_profile") =>
                /\ out'.r = r
                /\ out'.resp.status = 200
                /\ out'.resp.valid
                /\ \E s \in user_sessions :
                      s.session_token = req[r].token /\ s.user_id = out'.resp.user.id
      ]_vars

\* C7 witness: CheckSession has returned the valid result.
C7_Witness ==
    /\ Returned("check")
    /\ out.resp.valid
    /\ out.req.token \in ValidTokens

C9_LoginAddsOneSession ==
    [][ \A r \in Reqs :
          (Moves(r, "login_commit") /\ out'.resp.status = 200) =>
             /\ user_sessions \subseteq user_sessions'
             /\ Cardinality(user_sessions') = Cardinality(user_sessions) + 1
             /\ \A s \in user_sessions' \ user_sessions :
                   /\ s.user_id = out'.resp.user.id
                   /\ s.session_token = out'.resp.sessionToken
                   /\ s.session_token \notin {x.session_token : x \in user_sessions}
             /\ ValidTokens \subseteq ValidTokens'
             /\ UNCHANGED <<users, client_profiles, freelancer_profiles>>
      ]_vars

\* C9 witness: after a successful Login its account holds two valid sessions.
C9_Witness ==
    /\ Returned("login")
    /\ out.resp.status = 200
    /\ Cardinality({s \in user_sessions :
                       s.user_id = out.resp.user.id /\ ValidSession(s)}) >= 2

\* C10: Logout with a non-empty token returns the success acknowledgment, and
\* the valid sessions afterwards are those before minus the session of that
\* token: no row is added or removed, rows of other tokens are untouched, and
\* for a token without a session the store is unchanged.
C10_LogoutRemovesOnlyItsToken ==
    [][ \A r \in Reqs :
          Moves(r, "logout_commit") =>
             /\ out'.r = r
             /\ out'.resp = LogoutOk
             /\ ValidTokens' = ValidTokens \ {req[r].token}
             /\ \A s \in user_sessions : s.session_token # req[r].token => s \in user_sessions'
             /\ {<<s.user_id, s.session_token>> : s \in user_sessions'}
                   = {<<s.user_id, s.session_token>> : s \in user_sessions}
             /\ (\A s \in user_sessions : s.session_token # req[r].token) =>
                   UNCHANGED user_sessions
             /\ UNCHANGED <<users, client_profiles, freelancer_profiles>>
      ]_vars

\* C10 witness: the Logout of an issued token has returned, while the account
\* holds another session that is still valid.
C10_Witness ==
    /\ Returned("logout")
    /\ out.resp = LogoutOk
    /\ out.req.token \notin ValidTokens
    /\ \E s \in user_sessions : \E x \in user_sessions :
          /\ s.session_token = out.req.token
          /\ x.user_id = s.user_id
          /\ x.session_token # s.session_token
          /\ ValidSession(x)

\* C11: every request that acquired a connection has closed it by the time it
\* returns, on every exit path, and every return carries a response: a request
\* slot that is not running holds no open connection, and the response just
\* returned has a status.
C11_ConnectionReleased ==
    /\ \A r \in Reqs : pc[r] = "idle" => ~conn_open[r]
    /\ out.r # 0 => /\ out.resp.status # 0
                    /\ ~conn_open[out.r]

\* C11 witness: a request that had opened a connection has returned through
\* the handler of any other exception.
C11_Witness ==
    /\ out.r # 0
    /\ Acquires(out.req)
    /\ out.resp = ServerError
    /\ pc[out.r] = "idle"

\* C12: for all passwords p and candidates c, verify_password(hash_password(p), c)
\* is true if and only if c = p, whatever salt hash_password drew.
C12_VerifyIffSamePassword ==
    call.stage = "verified" => (call.result <=> call.candidate = call.password)

\* the validation and authentication errors of the four operations
C13_Refusals ==
    {MissingField(m) : m \in {"Missing required field: email",
                              "Missing required field: password",
                              "Missing required field: userType",
                              "Missing required field: firstName",
                              "Missing required field: lastName"}}
    \cup {InvalidUserType, WeakPassword, EmailExists, MissingCredentials,
          InvalidCredentials, LogoutMissingToken, CheckMissingToken}

\* C13: a request that ends in a validation or authentication error leaves
\* accounts, profiles and sessions as they were: the step that returns the
\* error changes no table, and the request's transaction holds no write.
C13_RefusalWritesNothing ==
    [][ \A r \in Reqs :
          (out'.r = r /\ out'.resp \in C13_Refusals) =>
             /\ UNCHANGED <<users, client_profiles, freelancer_profiles, user_sessions>>
             /\ tx[r] = NoTx
      ]_vars

\* C13 witness: a Login with a wrong password for an active account that holds
\* a session has been refused.
C13_Witness ==
    /\ Returned("login")
    /\ out.resp = InvalidCredentials
    /\ \E u \in users :
          /\ u.email = NormalizeEmail(out.req.email)
          /\ u.is_active
          /\ ~verify_password(u.password_hash, out.req.password)
          /\ \E x \in user_sessions : x.user_id = u.id

\* C14: CheckSession returns one and the same result, Invalid or expired
\* session, for a token that was never issued, a token whose session has
\* expired, a token that a Logout has invalidated, and a token whose account
\* is disabled.
C14_CheckFailuresAlike ==
    [][ \A r \in Reqs :
          LET t == req[r].token
              mine == {s \in user_sessions : s.session_token = t}
              never == t \notin {i.session_token : i \in issued}
              expired == \E s \in mine : s.expires_at <= now
              loggedout == t \in logged_out
              disabled == \E s \in mine : \E u \in users : u.id = s.user_id /\ ~u.is_active
          IN (Moves(r, "check_session") /\ (never \/ expired \/ loggedout \/ disabled)) =>
                out'.r = r /\ out'.resp = InvalidOrExpiredSession
      ]_vars

\* C14 witness: CheckSession of a token whose session has not expired and was
\* not logged out, but whose account is disabled, has been refused.
C14_Witness ==
    /\ Returned("check")
    /\ out.resp = InvalidOrExpiredSession
    /\ out.req.token \notin logged_out
    /\ \E s \in user_sessions : \E u \in users :
          /\ s.session_token = out.req.token
          /\ s.expires_at > now
          /\ u.id = s.user_id
          /\ ~u.is_active

\* C15: a token that a successful Register or Login returned is accepted by
\* CheckSession as long as it is not logged out, fewer than 30 days have passed
\* since it was issued and the account is active; CheckSession then returns
\* the id, email and user type of the token's account and the profile id that
\* the issuing request returned.
C15_IssuedTokenAccepted ==
    [][ \A r \in Reqs : \A i \in issued :
          i.session_token = req[r].token =>
             /\ ( /\ Moves(r, "check_session")
                  /\ \E s \in user_sessions : s.session_token = i.session_token
                  /\ i.session_token \notin logged_out
                  /\ now < i.at + SessionDays
                  /\ \E u \in users : u.id = i.user_id /\ u.is_active )
                => /\ pc'[r] = "check_profile"
                   /\ loc'[r].user.id = i.user_id
             /\ Moves(r, "check_profile")
                => /\ out'.r = r
                   /\ out'.resp.status = 200
                   /\ out'.resp.valid
                   /\ out'.resp.user.id = i.user_id
                   /\ out'.resp.user.profileId = i.profile_id
                   /\ \E u \in users :
                         /\ u.id = i.user_id
                         /\ out'.resp.user.email = u.email
                         /\ out'.resp.user.userType = u.user_type
      ]_vars

\* C15 witness: CheckSession has accepted a token that a Login issued, on the
\* last day of its 30 days, and has returned the account and profile of that
\* Login.
C15_Witness ==
    /\ Returned("check")
    /\ out.resp.valid
    /\ \E i \in issued :
          /\ i.session_token = out.req.token
          /\ \A g \in registrations : g.session_token # i.session_token
          /\ i.at > 0
          /\ now = i.at + SessionDays - 1
          /\ out.resp.user.id = i.user_id
          /\ out.resp.user.profileId = i.profile_id

\* the outcome that the order of checks prescribes for a Register input:
\* the error of the first failing check, or NoResp when all pass
C16_Expected(q, stored) ==
    IF q.email = <<>> THEN MissingField("Missing required field: email")
    ELSE IF q.password = <<>> THEN MissingField("Missing required field: password")
    ELSE IF q.userType = <<>> THEN MissingField("Missing required field: userType")
    ELSE IF q.firstName = <<>> THEN MissingField("Missing required field: firstName")
    ELSE IF q.lastName = <<>> THEN MissingField("Missing required field: lastName")
    ELSE IF q.userType # Client /\ q.userType # Freelancer THEN InvalidUserType
    ELSE IF Len(q.password) < 6 THEN WeakPassword
    ELSE IF stored THEN EmailExists
    ELSE NoResp

\* C16: the outcome of a Register is decided by the first failing check in the
\* order: missing field (email, password, userType, firstName, lastName),
\* invalid user type, password shorter than 6, email already stored; the
\* request goes on to create an account only when all pass, and an account
\* is created only then.
C16_FirstFailingCheckDecides ==
    [][ \A r \in Reqs :
          /\ LET q == IF pc[r] = "idle" THEN out'.req ELSE req[r]
                 stored == \E u \in users : u.email = NormalizeEmail(q.email)
             IN /\ ( /\ pc[r] \in {"idle", "reg_check"}
                     /\ out'.r = r
                     /\ out'.req.kind = "register"
                     /\ out'.fault = "" )
                   => out'.resp = C16_Expected(q, stored)
                /\ (pc[r] = "idle" /\ pc'[r] = "reg_check")
                   => C16_Expected(req'[r], FALSE) = NoResp
                /\ (pc[r] = "reg_check" /\ pc'[r] = "reg_user")
                   => C16_Expected(q, stored) = NoResp
                /\ (pc[r] = "reg_commit" /\ out'.r = r /\ out'.fault = "")
                   => /\ out'.resp.status = 201
                      /\ C16_Expected(q, FALSE) = NoResp
                      /\ out'.resp.user.id \in {u.id : u \in users'} \ {u.id : u \in users}
          /\ {u.id : u \in users'} # {u.id : u \in users}
                => \E c \in Reqs : pc[c] = "reg_commit" /\ out'.r = c /\ out'.resp.status = 201
      ]_vars

\* C16 witness: a Register whose user type is invalid, whose password is too
\* short and whose email is stored has been refused for its user type.
C16_Witness ==
    /\ Returned("register")
    /\ out.resp = InvalidUserType
    /\ Len(out.req.password) < 6
    /\ \E u \in users : u.email = NormalizeEmail(out.req.email)

\* C17: every account record that Register stores has an email that is
\* non-empty and equal to its own lower-cased, trimmed form.
C17_StoredEmailNormalized ==
    \A u \in users :
        /\ u.email # <<>>
        /\ u.email = NormalizeEmail(u.email)

\* C18: account records and session records are never removed: in every step
\* the set of account ids and the set of session tokens only grow; and the
\* steps of a Logout change nothing but the expires_at of the session of its
\* token.
C18_RowsNeverRemoved ==
    [][ /\ {u.id : u \in users} \subseteq {u.id : u \in users'}
        /\ {s.session_token : s \in user_sessions}
              \subseteq {s.session_token : s \in user_sessions'}
        /\ \A r \in Reqs :
              (pc[r] \in {"logout_update", "logout_commit"} /\ pc'[r] # pc[r]) =>
                 /\ UNCHANGED <<users, client_profiles, freelancer_profiles>>
                 /\ \A s \in user_sessions :
                       \E x \in user_sessions' :
                          /\ x.session_token = s.session_token
                          /\ x.user_id = s.user_id
                          /\ s.session_token # req[r].token => x = s
                 /\ Cardinality(user_sessions') = Cardinality(user_sessions)
      ]_vars

\* C18 witness: a Logout has returned and the session of its token is still
\* in the store, with the time of the Logout as its expiry.
C18_Witness ==
    /\ Returned("logout")
    /\ out.resp = LogoutOk
    /\ \E s \in user_sessions : \E i \in issued :
          /\ s.session_token = out.req.token
          /\ i.session_token = s.session_token
          /\ s.user_id = i.user_id
          /\ s.expires_at = now
          /\ s.expires_at < i.at + SessionDays

\* C19: CheckSession never modifies the store: no step of a CheckSession,
\* whatever it returns, changes an account, a profile or a session (the expiry
\* of the checked session included), and its transaction holds no write.
C19_CheckSessionReadsOnly ==
    [][ \A r \in Reqs :
          ( \/ pc[r] \in {"check_session", "check_profile"} /\ pc'[r] # pc[r]
            \/ out'.r = r /\ out'.req.kind = "check" ) =>
             /\ UNCHANGED <<users, client_profiles, freelancer_profiles, user_sessions>>
             /\ tx[r] = NoTx
             /\ tx'[r] = NoTx
      ]_vars

\* C19 witness: CheckSession has returned the valid result and the checked
\* session still has the expiry it was issued with.
C19_Witness ==
    /\ Returned("check")
    /\ out.resp.valid
    /\ \E s \in user_sessions : \E i \in issued :
          /\ s.session_token = out.req.token
          /\ i.session_token = s.session_token
          /\ s.expires_at = i.at + SessionDays

\* C20: Logout and CheckSession read the session token from the
\* X-Session-Token header whatever the casing of its name: a request whose
\* header, in any spelling, carries a non-empty token is not answered with
\* Session token required.
C20_HeaderNameCaseInsensitive ==
    ( /\ Returned("logout") \/ Returned("check")
      /\ out.req.header \in HeaderNames
      /\ out.req.token # 0 )
    => out.resp \notin {LogoutMissingToken, CheckMissingToken}

====
